---- MODULE Spec2Model ----
(***************************************************************************)
(* The plasma client library (src/src/plasma_client.c): one process that   *)
(* holds connections to a plasma store, the descriptor table and address   *)
(* space of that process, the shared buffer files, and the per-connection  *)
(* table of buffers already mapped.  Every library call is one action.     *)
(***************************************************************************)
EXTENDS Integers, Sequences, FiniteSets, TLC

\* ---------------------------------------------------------------- bounds
NumConns == 2
NumBufs == 2
MaxLen == 1
MaxQueue == 2
MaxStrLen == 3

\* ------------------------------------------------------ program constants
MaxAttempts == 50
SleepUsec == 100000
NULL == 0
MAP_FAILED == -1

Conns == 1..NumConns
BufIds == 1..NumBufs
ObjIds == {1}
Bytes == {0, 1}

\* sizes and offsets a request or a reply may carry
Sizes == {0, MaxLen}
Offsets == {0, MaxLen}
MetaOffsets == {0, MaxLen, 2 * MaxLen}
BufLen == 3 * MaxLen
MapSizes == {MaxLen, BufLen}

\* the process' descriptor numbers and the pages mmap may return
FdNums == 1..(NumConns + 1)
PageSize == BufLen
Pages == 1..(NumConns * NumBufs)

VARIABLES
  proc,        \* "running", "exited" (exit(-1)) or "crashed" (SIGSEGV)
  connState,   \* per connection object: "Unconnected", "Connected", "Closed"
  conn_fd,     \* plasma_store_conn.conn
  mmap_table,  \* plasma_store_conn.mmap_table: store_fd value -> pointer (NULL: no
               \* entry); an entry is a heap block of its own that stays allocated
               \* until it is deleted from the table and freed
  fds,         \* descriptor table of the process
  mappings,    \* regions mapped into the process
  mem,         \* contents of the store's buffer files
  objects,     \* the store's object table
  wrote,       \* per object id: the metadata bytes the last returned Create supplied
  call,        \* the library call made last: arguments, reply, system calls, results
  thr,         \* per thread: where it is in the library call it is making
  requests,    \* per connection: the requests written that the store has not taken
  replies      \* per connection: the replies written that the client has not read

vars ==
  <<proc, connState, conn_fd, mmap_table, fds, mappings, mem, objects, wrote, call,
    thr, requests, replies>>

\* ------------------------------------------------------------ data types
FreeFd == [kind |-> "free", id |-> 0]
SockFd(c) == [kind |-> "sock", id |-> c]
FileFd(b) == [kind |-> "file", id |-> b]

\* plasma_reply: the plasma_object with its handle, and has_object
ReplyRecords ==
  [data_size : Sizes, metadata_size : Sizes, data_offset : Offsets,
   metadata_offset : MetaOffsets, store_fd : BufIds, mmap_size : MapSizes,
   has_object : {0, 1}]

ObjectReplies == {r \in ReplyRecords : r.has_object = 0}

ZeroReply ==
  [data_size |-> 0, metadata_size |-> 0, data_offset |-> 0, metadata_offset |-> 0,
   store_fd |-> 1, mmap_size |-> MaxLen, has_object |-> 0]

ContainsReplies == {[ZeroReply EXCEPT !.has_object = h] : h \in {0, 1}}

\* what the transport hands to recv_fd: ok = a message with a descriptor
\* arrived; otherwise reply is what the uninitialised reply buffer holds
RecvOutcomes == [ok : BOOLEAN, reply : ObjectReplies]

\* what read() hands to plasma_contains: r = -1 error, 0 end of file, 1 some
\* bytes; sent = the reply the store wrote; full = the whole record arrived;
\* reply = the reply buffer afterwards, which is the record sent when all of
\* it arrived
ReadOutcomes ==
  {x \in [r : {-1, 0, 1}, full : BOOLEAN, sent : ContainsReplies,
           reply : ContainsReplies] :
     /\ x.full => (x.r = 1 /\ x.reply = x.sent)}

\* the caller's metadata argument: NULL, or a buffer of metadata_size bytes
NullMeta == [null |-> TRUE, bytes |-> <<>>]
RECURSIVE ByteSeqs(_)
ByteSeqs(n) ==
  IF n = 0 THEN {<<>>}
  ELSE {Append(s, b) : s \in ByteSeqs(n - 1), b \in Bytes}
MetaBufs(n) == {[null |-> FALSE, bytes |-> s] : s \in ByteSeqs(n)}
ZeroMeta(n) == [null |-> FALSE, bytes |-> [i \in 1..n |-> 0]]

NoArgs ==
  [object_id |-> 0, data_size |-> 0, metadata_size |-> 0, metadata |-> NullMeta,
   want_metadata |-> FALSE, k |-> 0]
Unset == -1
NoOut ==
  [data |-> Unset, size |-> Unset, metadata |-> Unset, metadata_size |-> Unset,
   has_object |-> Unset]
NoCall ==
  [op |-> "none", c |-> 0, st |-> "", args |-> NoArgs, got |-> FALSE,
   reply |-> ZeroReply, sent |-> ZeroReply, ev |-> <<>>, ret |-> "", out |-> NoOut]

Ev(e, fd, x, t) == [e |-> e, fd |-> fd, x |-> x, t |-> t]

\* plasma_request: the fields a designated initialiser leaves out are zero
NoAddr == <<0, 0, 0, 0>>
Req(object_id, data_size, metadata_size, addr, port) ==
  [object_id |-> object_id, data_size |-> data_size, metadata_size |-> metadata_size,
   addr |-> addr, port |-> port]

\* ------------------------------------------------------- operating system
LowestFree(fdtab) ==
  IF \E n \in FdNums : fdtab[n].kind = "free"
  THEN CHOOSE n \in FdNums :
         fdtab[n].kind = "free" /\ \A m \in FdNums : fdtab[m].kind = "free" => n <= m
  ELSE -1

\* close(fd): frees the number; EBADF on a number that is not open
close(fdtab, fd) ==
  IF fd \in FdNums /\ fdtab[fd].kind # "free" THEN [fdtab EXCEPT ![fd] = FreeFd]
  ELSE fdtab

FreePages(maps) == {p \in Pages : \A m \in maps : m.base # p * PageSize}

\* the kernel chooses the address: the free page next to the regions mapped
\* so far, or one apart from them (the lowest and the highest free page)
PlacedPages(maps) ==
  {p \in FreePages(maps) :
     \/ \A q \in FreePages(maps) : p <= q
     \/ \A q \in FreePages(maps) : q <= p}

\* mmap(NULL, map_size, PROT_READ | PROT_WRITE, MAP_SHARED, fd, 0): the
\* addresses it may return
mmap(maps, fdtab, map_size, fd) ==
  IF fd \in FdNums /\ fdtab[fd].kind = "file" /\ map_size > 0
  THEN {p * PageSize : p \in PlacedPages(maps)} \cup {MAP_FAILED}
  ELSE {MAP_FAILED}

Mapped(maps, a) == {m \in maps : m.base <= a /\ a < m.base + m.size}

\* the byte at address a (-1: the address is not mapped)
Load(maps, memv, a) ==
  IF Mapped(maps, a) = {} THEN -1
  ELSE LET m == CHOOSE x \in Mapped(maps, a) : TRUE IN memv[m.buf][a - m.base]

\* memcpy(dst, src, n): byte by byte; a store to an unmapped address faults
RECURSIVE memcpy_from(_, _, _, _, _, _)
memcpy_from(maps, memv, dst, src, n, i) ==
  IF i > n THEN [mem |-> memv, fault |-> FALSE]
  ELSE IF Mapped(maps, dst + i - 1) = {} THEN [mem |-> memv, fault |-> TRUE]
  ELSE LET m == CHOOSE x \in Mapped(maps, dst + i - 1) : TRUE
       IN memcpy_from(maps, [memv EXCEPT ![m.buf][dst + i - 1 - m.base] = src[i]],
                      dst, src, n, i + 1)
memcpy_short(maps, memv, dst, src, n) == memcpy_from(maps, memv, dst, src, n - 1, 1)

memcpy(maps, memv, dst, src, n) == memcpy_from(maps, memv, dst, src, n, 1)

\* ------------------------------------------------------------- transport
\* plasma_send_request: write_message on fd; x = the connection whose channel
\* takes the message (0: fd is no open socket, the write fails)
plasma_send_request(fdtab, fd, type, req) ==
  [e |-> "write_message", fd |-> fd,
   x |-> IF fd \in FdNums /\ fdtab[fd].kind = "sock" THEN fdtab[fd].id ELSE 0,
   t |-> type, req |-> req]

Delivered(e) == e.x # 0

\* recv_fd(conn->conn, &reply, sizeof(plasma_reply)): the descriptor received
\* (-1 on failure), the reply buffer and the descriptor table afterwards
recv_fd(fdtab, fd, rx) ==
  IF rx.ok /\ fd \in FdNums /\ fdtab[fd].kind = "sock" /\ LowestFree(fdtab) # -1
  THEN [fd |-> LowestFree(fdtab), got |-> TRUE, reply |-> rx.reply,
        sent |-> rx.reply,
        fds |-> [fdtab EXCEPT ![LowestFree(fdtab)] = FileFd(rx.reply.store_fd)]]
  ELSE [fd |-> -1, got |-> FALSE, reply |-> rx.reply, sent |-> ZeroReply,
        fds |-> fdtab]

\* ------------------------------------------------- descriptor-mapping cache
EmptyTable_uninitialised == [b \in BufIds |-> PageSize]

\* result->mmap_table = NULL
EmptyTable == [b \in BufIds |-> NULL]

HASH_FIND_INT_miss(tbl, key) == NULL

\* HASH_FIND_INT: the pointer of the entry with this key, NULL without one
HASH_FIND_INT(tbl, key) == IF key \in DOMAIN tbl THEN tbl[key] ELSE NULL

HASH_ADD_INT(tbl, key, pointer) == [tbl EXCEPT ![key] = pointer]

\* the client_mmap_table_entry blocks malloc'ed for a table and not freed
Entries(tbl) == {key \in DOMAIN tbl : tbl[key] # NULL}

lookup_or_mmap_leak(c, tbl, fdtab, maps, fd, store_fd_val, map_size) ==
  IF HASH_FIND_INT(tbl, store_fd_val) # NULL
  THEN {[result |-> HASH_FIND_INT(tbl, store_fd_val), exit |-> FALSE, tbl |-> tbl,
         fds |-> fdtab, maps |-> maps, ev |-> <<>>]}
  ELSE {IF result = MAP_FAILED
        THEN [result |-> result, exit |-> TRUE, tbl |-> tbl, fds |-> fdtab,
              maps |-> maps, ev |-> <<Ev("mmap", fd, store_fd_val, "MAP_FAILED")>>]
        ELSE [result |-> result, exit |-> FALSE,
              tbl |-> HASH_ADD_INT(tbl, store_fd_val, result),
              fds |-> close(fdtab, fd),
              maps |-> maps \cup {[base |-> result, size |-> map_size,
                                   buf |-> fdtab[fd].id, c |-> c]},
              ev |-> <<Ev("mmap", fd, store_fd_val, ""),
                       Ev("close", fd, store_fd_val, "")>>]
        : result \in mmap(maps, fdtab, map_size, fd)}

\* lookup_or_mmap: the outcomes of one resolution. result = the pointer
\* returned; exit = mmap failed and the process exits
lookup_or_mmap(c, tbl, fdtab, maps, fd, store_fd_val, map_size) ==
  IF HASH_FIND_INT(tbl, store_fd_val) # NULL
  THEN {[result |-> HASH_FIND_INT(tbl, store_fd_val), exit |-> FALSE, tbl |-> tbl,
         fds |-> close(fdtab, fd), maps |-> maps,
         ev |-> <<Ev("close", fd, store_fd_val, "")>>]}
  ELSE {IF result = MAP_FAILED
        THEN [result |-> result, exit |-> TRUE, tbl |-> tbl, fds |-> fdtab,
              maps |-> maps, ev |-> <<Ev("mmap", fd, store_fd_val, "MAP_FAILED")>>]
        ELSE [result |-> result, exit |-> FALSE,
              tbl |-> HASH_ADD_INT(tbl, store_fd_val, result),
              fds |-> close(fdtab, fd),
              maps |-> maps \cup {[base |-> result, size |-> map_size,
                                   buf |-> fdtab[fd].id, c |-> c]},
              ev |-> <<Ev("mmap", fd, store_fd_val, ""),
                       Ev("close", fd, store_fd_val, "")>>]
        : result \in mmap(maps, fdtab, map_size, fd)}

\* ------------------------------------------------------- store connection
conn_read_shared(c) == {[conn |-> conn_fd[c], tbl |-> mmap_table[1]]}

\* the fields an operation reads through its conn pointer; the object of a
\* closed connection is freed memory: it reads as what was there or as
\* anything else
conn_read(c) ==
  IF connState[c] = "Connected"
  THEN {[conn |-> conn_fd[c], tbl |-> mmap_table[c]]}
  ELSE [conn : FdNums \cup {-1}, tbl : {mmap_table[c], EmptyTable}]

CallOf(op, c, args, rcv, ev, ret, out) ==
  [op |-> op, c |-> c, st |-> connState[c], args |-> args, got |-> rcv.got,
   reply |-> rcv.reply, sent |-> rcv.sent, ev |-> ev, ret |-> ret, out |-> out]

\* CHECK, CHECKM: the process goes on when the condition holds and exits
\* when it does not
CHECK(cond) == IF cond THEN "running" ELSE "exited"

create_checks_no_offset(object, data_size, metadata_size) ==
  /\ object.data_size = data_size
  /\ object.metadata_size = metadata_size

\* the three CHECKs of plasma_create on the reply
create_checks(object, data_size, metadata_size) ==
  /\ object.data_size = data_size
  /\ object.metadata_size = metadata_size
  /\ object.metadata_offset = object.data_offset + data_size

create_metadata_dst_at_data(data, object) == data

\* where plasma_create copies the metadata to
create_metadata_dst(data, object) == data + object.data_size

plasma_create(c, object_id, data_size, metadata, metadata_size, rx) ==
  /\ proc = "running" /\ call.op = "none" /\ connState[c] # "Unconnected"
  /\ \E h \in conn_read(c) :
       LET snd == plasma_send_request(fds, h.conn, "PLASMA_CREATE",
                                      Req(object_id, data_size, metadata_size, NoAddr, 0))
           rcv == recv_fd(fds, h.conn, rx)
           object == rcv.reply
           args == [object_id |-> object_id, data_size |-> data_size,
                    metadata_size |-> metadata_size, metadata |-> metadata,
                    want_metadata |-> FALSE, k |-> 0]
           ev0 == <<snd, Ev("recv_fd", rcv.fd, 0, "")>>
       IN IF ~create_checks(object, data_size, metadata_size)
          THEN /\ proc' = CHECK(create_checks(object, data_size, metadata_size))
               /\ fds' = rcv.fds
               /\ call' = CallOf("create", c, args, rcv, ev0, "exit", NoOut)
               /\ UNCHANGED <<connState, conn_fd, mmap_table, mappings, mem>>
          ELSE \E m \in lookup_or_mmap(c, h.tbl, rcv.fds, mappings, rcv.fd,
                                       object.store_fd, object.mmap_size) :
                 LET data == m.result + object.data_offset
                     cp == IF m.exit \/ metadata.null
                           THEN [mem |-> mem, fault |-> FALSE]
                           ELSE memcpy(m.maps, mem, create_metadata_dst(data, object),
                                       metadata.bytes, metadata_size)
                     ev1 == ev0 \o m.ev \o
                            (IF m.exit \/ metadata.null THEN <<>>
                             ELSE <<Ev("memcpy", -1, create_metadata_dst(data, object), "")>>)
                     ret == IF m.exit THEN "exit" ELSE IF cp.fault THEN "crash"
                            ELSE "returned"
                 IN /\ proc' = IF m.exit THEN "exited" ELSE IF cp.fault THEN "crashed"
                               ELSE "running"
                    /\ fds' = m.fds
                    /\ mappings' = m.maps
                    /\ mmap_table' = [mmap_table EXCEPT ![c] = m.tbl]
                    /\ mem' = cp.mem
                    /\ call' = CallOf("create", c, args, rcv, ev1, ret,
                                      IF ret = "returned"
                                      THEN [NoOut EXCEPT !.data = data] ELSE NoOut)
                    /\ UNCHANGED <<connState, conn_fd>>

get_outputs_by_meta_size(data, object, want_metadata) ==
  [data |-> data, size |-> object.data_size,
   metadata |-> IF want_metadata THEN data + object.metadata_size ELSE Unset,
   metadata_size |-> IF want_metadata THEN object.metadata_size ELSE Unset,
   has_object |-> Unset]

\* what plasma_get stores through its output pointers
get_outputs(data, object, want_metadata) ==
  [data |-> data, size |-> object.data_size,
   metadata |-> IF want_metadata THEN data + object.data_size ELSE Unset,
   metadata_size |-> IF want_metadata THEN object.metadata_size ELSE Unset,
   has_object |-> Unset]

plasma_get(c, object_id, want_metadata, rx) ==
  /\ proc = "running" /\ call.op = "none" /\ connState[c] # "Unconnected"
  /\ \E h \in conn_read(c) :
       LET snd == plasma_send_request(fds, h.conn, "PLASMA_GET",
                                      Req(object_id, 0, 0, NoAddr, 0))
           rcv == recv_fd(fds, h.conn, rx)
           object == rcv.reply
           args == [NoArgs EXCEPT !.object_id = object_id,
                                  !.want_metadata = want_metadata]
           ev0 == <<snd, Ev("recv_fd", rcv.fd, 0, "")>>
       IN \E m \in lookup_or_mmap(c, h.tbl, rcv.fds, mappings, rcv.fd,
                                  object.store_fd, object.mmap_size) :
            /\ proc' = IF m.exit THEN "exited" ELSE "running"
            /\ fds' = m.fds
            /\ mappings' = m.maps
            /\ mmap_table' = [mmap_table EXCEPT ![c] = m.tbl]
            /\ call' = CallOf("get", c, args, rcv, ev0 \o m.ev,
                              IF m.exit THEN "exit" ELSE "returned",
                              IF m.exit THEN NoOut
                              ELSE get_outputs(m.result + object.data_offset, object,
                                               want_metadata))
            /\ UNCHANGED <<connState, conn_fd, mem>>

\* read(conn->conn, &reply, sizeof(plasma_reply)): -1 on a descriptor that
\* is no open socket
read(fdtab, fd, rd) ==
  IF fd \in FdNums /\ fdtab[fd].kind = "sock" THEN rd.r ELSE -1

\* the value plasma_contains stores through has_object
contains_output(reply) == reply.has_object

plasma_contains(c, object_id, rd) ==
  /\ proc = "running" /\ call.op = "none" /\ connState[c] # "Unconnected"
  /\ \E h \in conn_read(c) :
       LET snd == plasma_send_request(fds, h.conn, "PLASMA_CONTAINS",
                                      Req(object_id, 0, 0, NoAddr, 0))
           r == read(fds, h.conn, rd)
           rcv == [got |-> (r > 0 /\ rd.full), reply |-> rd.reply, sent |-> rd.sent]
           args == [NoArgs EXCEPT !.object_id = object_id]
           ev0 == <<snd, Ev("read", h.conn, r, "")>>
           ok == r # -1 /\ r # 0
       IN /\ proc' = CHECK(ok)
          /\ call' = CallOf("contains", c, args, rcv, ev0,
                            IF ok THEN "returned" ELSE "exit",
                            IF ok THEN [NoOut EXCEPT !.has_object = contains_output(rd.reply)]
                            ELSE NoOut)
          /\ UNCHANGED <<connState, conn_fd, mmap_table, fds, mappings, mem>>

NoRecv == [got |-> FALSE, reply |-> ZeroReply, sent |-> ZeroReply]

send_only(op, type, c, object_id) ==
  /\ proc = "running" /\ call.op = "none" /\ connState[c] # "Unconnected"
  /\ \E h \in conn_read(c) :
       call' = CallOf(op, c, [NoArgs EXCEPT !.object_id = object_id], NoRecv,
                      <<plasma_send_request(fds, h.conn, type, Req(object_id, 0, 0, NoAddr, 0))>>, "returned", NoOut)
  /\ UNCHANGED <<proc, connState, conn_fd, mmap_table, fds, mappings, mem>>

plasma_seal(c, object_id) == send_only("seal", "PLASMA_SEAL", c, object_id)

plasma_delete(c, object_id) == send_only("delete", "PLASMA_DELETE", c, object_id)

RECURSIVE connect_loop_one_more(_, _, _, _)
connect_loop_one_more(num_attempts, k, fdtab, ev) ==
  IF num_attempts <= MaxAttempts
  THEN LET fd == IF num_attempts + 1 >= k THEN LowestFree(fdtab) ELSE -1
       IN IF fd >= 0
          THEN [fd |-> fd, connected_successfully |-> 1,
                ev |-> Append(ev, Ev("connect_ipc_sock", fd, num_attempts + 1, ""))]
          ELSE connect_loop_one_more(num_attempts + 1, k, fdtab,
                            ev \o <<Ev("connect_ipc_sock", fd, num_attempts + 1, ""),
                                    Ev("usleep", -1, SleepUsec, "")>>)
  ELSE [fd |-> -1, connected_successfully |-> 0, ev |-> ev]

\* the retry loop of plasma_store_connect against a store whose socket
\* accepts from the k-th attempt on: the descriptor (-1: none), the flag
\* connected_successfully and the calls made
RECURSIVE connect_loop(_, _, _, _)
connect_loop(num_attempts, k, fdtab, ev) ==
  IF num_attempts < MaxAttempts
  THEN LET fd == IF num_attempts + 1 >= k THEN LowestFree(fdtab) ELSE -1
       IN IF fd >= 0
          THEN [fd |-> fd, connected_successfully |-> 1,
                ev |-> Append(ev, Ev("connect_ipc_sock", fd, num_attempts + 1, ""))]
          ELSE connect_loop(num_attempts + 1, k, fdtab,
                            ev \o <<Ev("connect_ipc_sock", fd, num_attempts + 1, ""),
                                    Ev("usleep", -1, SleepUsec, "")>>)
  ELSE [fd |-> -1, connected_successfully |-> 0, ev |-> ev]

plasma_store_connect(c, k) ==
  /\ proc = "running" /\ call.op = "none" /\ connState[c] = "Unconnected"
  /\ LET l == connect_loop(0, k, fds, <<>>)
         args == [NoArgs EXCEPT !.k = k]
     IN IF l.connected_successfully = 0
        THEN /\ proc' = "exited"
             /\ call' = CallOf("connect", c, args, NoRecv, l.ev, "exit", NoOut)
             /\ UNCHANGED <<connState, conn_fd, mmap_table, fds>>
        ELSE /\ connState' = [connState EXCEPT ![c] = "Connected"]
             /\ conn_fd' = [conn_fd EXCEPT ![c] = l.fd]
             /\ mmap_table' = [mmap_table EXCEPT ![c] = EmptyTable]
             /\ fds' = [fds EXCEPT ![l.fd] = SockFd(c)]
             /\ call' = CallOf("connect", c, args, NoRecv, l.ev, "returned", NoOut)
             /\ UNCHANGED proc
  /\ UNCHANGED <<mappings, mem>>

plasma_store_disconnect(c) ==
  /\ proc = "running" /\ call.op = "none" /\ connState[c] = "Connected"
  /\ fds' = close(fds, conn_fd[c])
  /\ connState' = [connState EXCEPT ![c] = "Closed"]
  /\ call' = CallOf("disconnect", c, NoArgs, NoRecv,
                    <<Ev("close", conn_fd[c], 0, ""), Ev("free", -1, c, "")>>,
                    "returned", NoOut)
  /\ UNCHANGED <<proc, conn_fd, mmap_table, mappings, mem>>

\* the caller takes the results of the call and goes on
Forget ==
  /\ proc = "running" /\ call.op # "none"
  /\ call' = NoCall
  /\ UNCHANGED <<proc, connState, conn_fd, mmap_table, fds, mappings, mem, objects, wrote,
                 thr, requests, replies>>

\* ------------------------------------------------------------- the store
\* an entry of the store's object table: st is "absent", "created" or
\* "sealed"; alloc is the reply the store gave to Create
NoObject == [st |-> "absent", alloc |-> ZeroReply]
NoWrite == [meta |-> NullMeta, c |-> 0]

\* the bytes of its buffer an object occupies
Region(r) == r.data_offset .. (r.data_offset + r.data_size + r.metadata_size - 1)

\* the replies a store that keeps its buffers in order may give to Create:
\* the sizes asked for, the metadata right after the data, the whole buffer
\* file as mmap_size, a region inside the buffer that no other object has
StoreCreateReplies(object_id, data_size, metadata_size) ==
  {r \in ObjectReplies :
     /\ objects[object_id].st = "absent"
     /\ r.data_size = data_size /\ r.metadata_size = metadata_size
     /\ r.metadata_offset = r.data_offset + r.data_size
     /\ r.mmap_size = BufLen
     /\ Region(r) \subseteq 0..(BufLen - 1)
     /\ \A o \in ObjIds :
          (objects[o].st # "absent" /\ objects[o].alloc.store_fd = r.store_fd)
            => Region(objects[o].alloc) \cap Region(r) = {}}

\* the replies to Get: the object as it was allocated, or the same buffer
\* with the object at another offset
StoreGetReplies(object_id) ==
  {[objects[object_id].alloc EXCEPT
      !.data_offset = o,
      !.metadata_offset = o + objects[object_id].alloc.data_size] :
     o \in Offsets}

StoreCreate(object_id, r) ==
  objects' = [objects EXCEPT ![object_id] = [st |-> "created", alloc |-> r]]

\* has_object of a reply to Contains from a store that honours Seal and
\* Delete: the object is sealed
StoreHasObject(object_id) == IF objects[object_id].st = "sealed" THEN 1 ELSE 0

\* the object table of a store of which only the objects' status is followed
StoreMark(object_id, type) ==
  objects' = [objects EXCEPT ![object_id].st =
                IF type = "PLASMA_CREATE" /\ @ = "absent" THEN "created"
                ELSE IF type = "PLASMA_SEAL" /\ @ = "created" THEN "sealed"
                ELSE IF type = "PLASMA_DELETE" THEN "absent"
                ELSE @]

\* ------------------------------------------------------- manager transfer
\* C strings: a char* is the index of a character in the memory around the
\* string, NULL is 0; the string s lies at 1..Len(s), its terminator behind it
NUL == "NUL"
Digits == <<"0", "1", "2", "3", "4", "5", "6", "7", "8", "9">>
IsDigit(ch) == \E d \in 1..10 : Digits[d] = ch
DigitVal(ch) == (CHOOSE d \in 1..10 : Digits[d] = ch) - 1

RECURSIVE Decimal(_)
Decimal(n) ==
  IF n < 10 THEN <<Digits[n + 1]>>
  ELSE Append(Decimal(n \div 10), Digits[(n % 10) + 1])
DottedQuad(o) ==
  Decimal(o[1]) \o <<".">> \o Decimal(o[2]) \o <<".">> \o Decimal(o[3]) \o <<".">>
    \o Decimal(o[4])

\* the character a pointer points to; behind the memory modelled nothing is
\* mapped
At(buf, p) == IF p \in 1..Len(buf) THEN buf[p] ELSE "unmapped"

RECURSIVE SkipSpace(_, _)
SkipSpace(buf, p) == IF At(buf, p) = " " THEN SkipSpace(buf, p + 1) ELSE p
RECURSIVE ScanDigits(_, _, _)
ScanDigits(buf, p, acc) ==
  IF IsDigit(At(buf, p)) THEN ScanDigits(buf, p + 1, acc * 10 + DigitVal(At(buf, p)))
  ELSE [val |-> acc, end |-> p]

\* strtol(nptr, &end, 10): white space, an optional sign, decimal digits;
\* without a digit the value is 0 and end is nptr. last = the last
\* character it looked at
strtol(buf, nptr) ==
  LET q == SkipSpace(buf, nptr)
      r == IF At(buf, q) \in {"-", "+"} THEN q + 1 ELSE q
      d == ScanDigits(buf, r, 0)
  IN IF d.end = r THEN [val |-> 0, end |-> nptr, last |-> r]
     ELSE [val |-> IF At(buf, q) = "-" THEN 0 - d.val ELSE d.val, end |-> d.end,
           last |-> d.end]

skip_dot_not(end) == end

\* end += 1
skip_dot(end) == end + 1

\* the loop of plasma_transfer: the scans made, each with the pointer it
\* started at, its value and the end pointer strtol gave
RECURSIVE transfer_loop(_, _, _, _)
transfer_loop(buf, i, end, scans) ==
  IF i < 4
  THEN LET nptr == IF end # NULL THEN end ELSE 1
           r == strtol(buf, nptr)
       IN transfer_loop(buf, i + 1, skip_dot(r.end),
                        Append(scans, [nptr |-> nptr, val |-> r.val, end |-> r.end,
                                       last |-> r.last]))
  ELSE scans

\* the conversion of the long to the octet req.addr[i]
Octet(v) == v % 256

\* the channel of a manager, told apart from the store connections
ManagerChan == NumConns + 1

\* plasma_manager_connect: socket, gethostbyname, connect; each may fail,
\* and then the process exits
plasma_manager_connect(outcome) ==
  /\ proc = "running" /\ call.op = "none"
  /\ LET fd == IF outcome = "no_socket" THEN -1 ELSE LowestFree(fds)
         ok == fd >= 0 /\ outcome = "connected"
     IN /\ proc' = IF ok THEN "running" ELSE "exited"
        /\ fds' = IF fd >= 0 THEN [fds EXCEPT ![fd] = SockFd(ManagerChan)] ELSE fds
        /\ call' = [NoCall EXCEPT !.op = "manager_connect",
                                  !.ev = <<Ev("socket", fd, 0, outcome)>>,
                                  !.ret = IF ok THEN "returned" ELSE "exit",
                                  !.out = [NoOut EXCEPT !.data = IF ok THEN fd ELSE Unset]]
  /\ UNCHANGED <<connState, conn_fd, mmap_table, mappings, mem>>

\* plasma_transfer on the string s, behind whose terminator the memory holds
\* junk and then ends
plasma_transfer(manager, s, junk, port, object_id) ==
  /\ proc = "running" /\ call.op = "none"
  /\ LET buf == s \o <<NUL>> \o junk \o <<NUL>>
         scans == transfer_loop(buf, 0, NULL, <<>>)
         fault == \E i \in 1..Len(scans) : scans[i].last > Len(buf)
         req == Req(object_id, 0, 0, [i \in 1..4 |-> Octet(scans[i].val)], port)
         ev == [i \in 1..4 |-> Ev("strtol", scans[i].nptr, scans[i].val, scans[i].end)]
     IN /\ proc' = IF fault THEN "crashed" ELSE "running"
        /\ call' = [NoCall EXCEPT
                      !.op = "transfer",
                      !.args = [object_id |-> object_id, addr |-> s, port |-> port],
                      !.ev = IF fault THEN ev
                             ELSE Append(ev, plasma_send_request(fds, manager,
                                                                 "PLASMA_TRANSFER", req)),
                      !.ret = IF fault THEN "crash" ELSE "returned"]
  /\ UNCHANGED <<connState, conn_fd, mmap_table, fds, mappings, mem>>

\* ---------------------------------------------------------------- threads
Threads == {1, 2}
NoMsg == [t |-> 0, type |-> "", req |-> Req(0, 0, 0, NoAddr, 0)]
NoReplyMsg == [re |-> NoMsg, reply |-> ZeroReply, rest |-> FALSE]
\* overlap: another thread was inside a call on the connection at some time
\* during the call this thread is making
IdleThread ==
  [pc |-> "idle", op |-> "none", args |-> NoArgs, msg |-> NoMsg, got |-> NoReplyMsg,
   fd |-> -1, ev |-> <<>>, out |-> NoOut, overlap |-> FALSE]
InCall(t) == thr[t].pc \in {"sent", "received", "missed"}

Others == <<connState, conn_fd, mem, objects, wrote, call>>
Running(t, c, pc) == proc = "running" /\ connState[c] = "Connected" /\ thr[t].pc = pc

\* the request is built and written: plasma_send_request puts one message
\* on the channel of conn->conn, which holds MaxQueue requests
send_step(t, c, op, type, object_id, req, pc) ==
  /\ Running(t, c, "idle")
  /\ Len(requests[c]) < MaxQueue
  /\ LET snd == plasma_send_request(fds, conn_fd[c], type, req)
         msg == [t |-> t, type |-> type, req |-> req]
     IN /\ requests' = [requests EXCEPT ![snd.x] = Append(@, msg)]
        /\ thr' = [u \in Threads |->
                     IF u = t
                     THEN [IdleThread EXCEPT
                             !.pc = pc, !.op = op, !.msg = msg,
                             !.args = [NoArgs EXCEPT !.object_id = object_id],
                             !.ev = <<snd>>,
                             !.overlap = \E v \in Threads \ {t} : InCall(v)]
                     ELSE IF InCall(u) THEN [thr[u] EXCEPT !.overlap = TRUE]
                     ELSE thr[u]]
  /\ UNCHANGED <<proc, mmap_table, fds, mappings, replies>>
  /\ UNCHANGED Others

seal_sends_nothing(t, c, object_id) ==
  /\ Running(t, c, "idle")
  /\ thr' = [thr EXCEPT ![t] =
               [IdleThread EXCEPT !.pc = "returned", !.op = "seal",
                                  !.args = [NoArgs EXCEPT !.object_id = object_id]]]
  /\ UNCHANGED <<proc, mmap_table, fds, mappings, requests, replies>>
  /\ UNCHANGED Others

\* plasma_seal and plasma_delete return after the write
plasma_seal_step(t, c, object_id) ==
  send_step(t, c, "seal", "PLASMA_SEAL", object_id, Req(object_id, 0, 0, NoAddr, 0),
            "returned")
plasma_delete_step(t, c, object_id) ==
  send_step(t, c, "delete", "PLASMA_DELETE", object_id, Req(object_id, 0, 0, NoAddr, 0),
            "returned")

\* plasma_create, plasma_get and plasma_contains go on to read the reply
plasma_create_send(t, c, object_id) ==
  send_step(t, c, "create", "PLASMA_CREATE", object_id, Req(object_id, 0, 0, NoAddr, 0),
            "sent")
plasma_get_send(t, c, object_id) ==
  send_step(t, c, "get", "PLASMA_GET", object_id, Req(object_id, 0, 0, NoAddr, 0), "sent")
plasma_contains_send(t, c, object_id) ==
  send_step(t, c, "contains", "PLASMA_CONTAINS", object_id,
            Req(object_id, 0, 0, NoAddr, 0), "sent")

\* recv_fd in plasma_create and plasma_get: blocks until a reply is there,
\* then takes the first one with its descriptor
recv_step(t, c) ==
  /\ Running(t, c, "sent") /\ thr[t].op \in {"create", "get"}
  /\ replies[c] # <<>>
  /\ LET m == Head(replies[c])
         rcv == recv_fd(fds, conn_fd[c], [ok |-> TRUE, reply |-> m.reply])
     IN /\ replies' = [replies EXCEPT ![c] = Tail(@)]
        /\ fds' = rcv.fds
        /\ thr' = [thr EXCEPT ![t].pc = "received", ![t].got = m, ![t].fd = rcv.fd,
                               ![t].ev = Append(@, Ev("recv_fd", rcv.fd, 0, ""))]
  /\ UNCHANGED <<proc, mmap_table, mappings, requests>>
  /\ UNCHANGED Others

\* read in plasma_contains: blocks until bytes of a reply are there; a read
\* that returns a part of the record leaves the rest of it on the channel
contains_read_step(t, c, rd) ==
  /\ Running(t, c, "sent") /\ thr[t].op = "contains"
  /\ replies[c] # <<>>
  /\ rd.r = 1 /\ rd.sent = Head(replies[c]).reply
  /\ LET m == Head(replies[c])
         r == read(fds, conn_fd[c], rd)
         ok == r # -1 /\ r # 0
     IN /\ replies' = [replies EXCEPT
                        ![c] = IF rd.full THEN Tail(@)
                               ELSE <<[m EXCEPT !.rest = TRUE]>> \o Tail(@)]
        /\ proc' = CHECK(ok)
        /\ thr' = [thr EXCEPT ![t].pc = IF ok THEN "returned" ELSE "exit",
                               ![t].got = [m EXCEPT !.rest = ~rd.full],
                               ![t].ev = Append(@, Ev("read", conn_fd[c], r, "")),
                               ![t].out = [NoOut EXCEPT
                                             !.has_object = contains_output(rd.reply)]]
  /\ UNCHANGED <<mmap_table, fds, mappings, requests>>
  /\ UNCHANGED Others

lookup_find_always_misses(t, c) ==
  /\ Running(t, c, "received")
  /\ thr' = [thr EXCEPT ![t].pc = "missed"]
  /\ UNCHANGED <<proc, mmap_table, fds, mappings, requests, replies>>
  /\ UNCHANGED Others

\* the CHECKs of plasma_create and the first half of lookup_or_mmap: the
\* table is searched; on a hit the descriptor is closed and the call returns
lookup_find_step(t, c) ==
  /\ Running(t, c, "received")
  /\ LET object == thr[t].got.reply
         entry == HASH_FIND_INT(mmap_table[c], object.store_fd)
         data == entry + object.data_offset
     IN IF thr[t].op = "create" /\ ~create_checks(object, 0, 0)
        THEN /\ proc' = CHECK(FALSE)
             /\ thr' = [thr EXCEPT ![t].pc = "exit"]
             /\ UNCHANGED fds
        ELSE IF entry # NULL
        THEN /\ fds' = close(fds, thr[t].fd)
             /\ thr' = [thr EXCEPT ![t].pc = "returned",
                                    ![t].ev = Append(@, Ev("close", thr[t].fd,
                                                           object.store_fd, "")),
                                    ![t].out = IF thr[t].op = "create"
                                               THEN [NoOut EXCEPT !.data = data]
                                               ELSE get_outputs(data, object, FALSE)]
             /\ UNCHANGED proc
        ELSE /\ thr' = [thr EXCEPT ![t].pc = "missed"]
             /\ UNCHANGED <<proc, fds>>
  /\ UNCHANGED <<mmap_table, mappings, requests, replies>>
  /\ UNCHANGED Others

\* the second half of lookup_or_mmap after a miss: mmap, the new entry, close
lookup_map_step(t, c) ==
  /\ Running(t, c, "missed")
  /\ LET object == thr[t].got.reply
         fd == thr[t].fd
     IN \E result \in mmap(mappings, fds, object.mmap_size, fd) :
          IF result = MAP_FAILED
          THEN /\ proc' = "exited"
               /\ thr' = [thr EXCEPT ![t].pc = "exit"]
               /\ UNCHANGED <<mmap_table, fds, mappings>>
          ELSE /\ mappings' = mappings \cup {[base |-> result, size |-> object.mmap_size,
                                               buf |-> fds[fd].id, c |-> c]}
               /\ mmap_table' = [mmap_table EXCEPT
                                   ![c] = HASH_ADD_INT(@, object.store_fd, result)]
               /\ fds' = close(fds, fd)
               /\ thr' = [thr EXCEPT
                            ![t].pc = "returned",
                            ![t].ev = @ \o <<Ev("mmap", fd, object.store_fd, ""),
                                             Ev("close", fd, object.store_fd, "")>>,
                            ![t].out = IF thr[t].op = "create"
                                       THEN [NoOut EXCEPT
                                               !.data = result + object.data_offset]
                                       ELSE get_outputs(result + object.data_offset,
                                                        object, FALSE)]
               /\ UNCHANGED proc
  /\ UNCHANGED <<requests, replies>>
  /\ UNCHANGED Others

\* the call is over and the thread takes its results
return_step(t) ==
  /\ proc = "running" /\ thr[t].pc = "returned"
  /\ thr' = [thr EXCEPT ![t] = IdleThread]
  /\ UNCHANGED <<proc, mmap_table, fds, mappings, requests, replies>>
  /\ UNCHANGED Others

\* the store takes the requests of a connection in the order they were
\* written and answers a Create, a Get and a Contains with one reply each,
\* a Seal and a Delete with none; the channel holds MaxQueue replies
ReplyBearing == {"PLASMA_CREATE", "PLASMA_GET", "PLASMA_CONTAINS"}
RepliesT ==
  {r \in ObjectReplies :
     /\ r.mmap_size = BufLen
     /\ r.data_size = 0 /\ r.metadata_size = 0 /\ r.data_offset = 0
     /\ r.metadata_offset = 0}
StoreAnswers(type, bufs) ==
  IF type = "PLASMA_CONTAINS" THEN ContainsReplies
  ELSE IF type \in ReplyBearing THEN {r \in RepliesT : r.store_fd \in bufs}
  ELSE {ZeroReply}
store_serve(c, bufs) ==
  /\ proc = "running" /\ requests[c] # <<>>
  /\ Len(replies[c]) < MaxQueue
  /\ LET m == Head(requests[c])
     IN /\ requests' = [requests EXCEPT ![c] = Tail(@)]
        /\ \E r \in StoreAnswers(m.type, bufs) :
             replies' = IF m.type \in ReplyBearing
                        THEN [replies EXCEPT ![c] = Append(@, [re |-> m, reply |-> r, rest |-> FALSE])]
                        ELSE replies
  /\ UNCHANGED <<proc, mmap_table, fds, mappings, thr>>
  /\ UNCHANGED Others

\* --------------------------------------------------------- specifications
Init ==
  /\ proc = "running"
  /\ connState = [c \in Conns |-> "Unconnected"]
  /\ conn_fd = [c \in Conns |-> -1]
  /\ mmap_table = [c \in Conns |-> EmptyTable]
  /\ fds = [n \in FdNums |-> FreeFd]
  /\ mappings = {}
  /\ mem = [b \in BufIds |-> [i \in 0..(BufLen - 1) |-> 0]]
  /\ objects = [id \in ObjIds |-> NoObject]
  /\ wrote = [id \in ObjIds |-> NoWrite]
  /\ call = NoCall
  /\ thr = [t \in Threads |-> IdleThread]
  /\ requests = [c \in Conns |-> <<>>]
  /\ replies = [c \in Conns |-> <<>>]

Live(c) == proc = "running" /\ call.op = "none" /\ connState[c] = "Connected"

\* one connection, used as the interface asks, against a store that may
\* answer anything
Connect1 ==
  /\ proc = "running" /\ call.op = "none"
  /\ \E k \in 1..(MaxAttempts + 1) : plasma_store_connect(1, k)
  /\ UNCHANGED <<objects, wrote, thr, requests, replies>>
Create1 ==
  /\ Live(1)
  /\ \E ds \in Sizes, ms \in Sizes, rx \in RecvOutcomes :
       \E md \in {NullMeta, ZeroMeta(ms)} : plasma_create(1, 1, ds, md, ms, rx)
  /\ StoreMark(1, "PLASMA_CREATE")
  /\ UNCHANGED <<wrote, thr, requests, replies>>
Get1 ==
  /\ Live(1)
  /\ \E wm \in BOOLEAN, rx \in RecvOutcomes : plasma_get(1, 1, wm, rx)
  /\ UNCHANGED <<objects, wrote, thr, requests, replies>>
Contains1 ==
  /\ Live(1)
  /\ \E rd \in ReadOutcomes : plasma_contains(1, 1, rd)
  /\ UNCHANGED <<objects, wrote, thr, requests, replies>>
Seal1 ==
  /\ Live(1) /\ plasma_seal(1, 1) /\ StoreMark(1, "PLASMA_SEAL")
  /\ UNCHANGED <<wrote, thr, requests, replies>>
Delete1 ==
  /\ Live(1) /\ plasma_delete(1, 1) /\ StoreMark(1, "PLASMA_DELETE")
  /\ UNCHANGED <<wrote, thr, requests, replies>>
Disconnect1 ==
  /\ Live(1) /\ plasma_store_disconnect(1)
  /\ UNCHANGED <<objects, wrote, thr, requests, replies>>

Next ==
  \/ Connect1 \/ Create1 \/ Get1 \/ Contains1 \/ Seal1 \/ Delete1 \/ Disconnect1
  \/ Forget

Spec == Init /\ [][Next]_vars

\* every connection of the process against a store that allocates its
\* buffers in order: an object is created, with metadata or without, and
\* then read
ConnectM ==
  /\ proc = "running" /\ call.op = "none"
  /\ \E c \in Conns : plasma_store_connect(c, 1)
  /\ UNCHANGED <<objects, wrote, thr, requests, replies>>
CreateM ==
  \E c \in Conns :
    /\ Live(c)
    /\ \E id \in ObjIds, ds \in Sizes, ms \in Sizes :
         \E md \in MetaBufs(ms) \cup {NullMeta}, r \in StoreCreateReplies(id, ds, ms) :
           /\ plasma_create(c, id, ds, md, ms, [ok |-> TRUE, reply |-> r])
           /\ StoreCreate(id, r)
           /\ wrote' = IF call'.ret = "returned"
                       THEN [wrote EXCEPT ![id] = [meta |-> md, c |-> c]]
                       ELSE wrote
           /\ UNCHANGED <<thr, requests, replies>>
GetM ==
  \E c \in Conns :
    /\ Live(c)
    /\ \E id \in ObjIds, wm \in BOOLEAN :
         /\ objects[id].st # "absent"
         /\ \E r \in StoreGetReplies(id) :
              plasma_get(c, id, wm, [ok |-> TRUE, reply |-> r])
    /\ UNCHANGED <<objects, wrote, thr, requests, replies>>

NextM == ConnectM \/ CreateM \/ GetM \/ Forget

SpecM == Init /\ [][NextM]_vars

\* two connection objects whose caller also passes a connection it has
\* disconnected: the operations then read the freed object
ConnsU == {1, 2}
Held(c) == proc = "running" /\ call.op = "none" /\ connState[c] # "Unconnected"
RepliesU ==
  {r \in ObjectReplies :
     /\ r.store_fd = 1 /\ r.mmap_size = BufLen
     /\ r.data_size = 0 /\ r.metadata_size = 0 /\ r.data_offset = 0
     /\ r.metadata_offset = 0}
RecvU == {rx \in RecvOutcomes : rx.reply \in RepliesU}
ReadU == {rd \in ReadOutcomes : rd.full}

ConnectU ==
  /\ proc = "running" /\ call.op = "none"
  /\ \E c \in ConnsU : plasma_store_connect(c, 1)
  /\ UNCHANGED <<objects, wrote, thr, requests, replies>>
CreateU ==
  /\ \E c \in ConnsU : Held(c) /\ \E rx \in RecvU : plasma_create(c, 1, 0, NullMeta, 0, rx)
  /\ UNCHANGED <<objects, wrote, thr, requests, replies>>
GetU ==
  /\ \E c \in ConnsU : Held(c) /\ \E rx \in RecvU : plasma_get(c, 1, FALSE, rx)
  /\ UNCHANGED <<objects, wrote, thr, requests, replies>>
ContainsU ==
  /\ \E c \in ConnsU : Held(c) /\ \E rd \in ReadU : plasma_contains(c, 1, rd)
  /\ UNCHANGED <<objects, wrote, thr, requests, replies>>
SealU ==
  /\ \E c \in ConnsU : Held(c) /\ plasma_seal(c, 1)
  /\ UNCHANGED <<objects, wrote, thr, requests, replies>>
DeleteU ==
  /\ \E c \in ConnsU : Held(c) /\ plasma_delete(c, 1)
  /\ UNCHANGED <<objects, wrote, thr, requests, replies>>
DisconnectU ==
  /\ \E c \in ConnsU : Live(c) /\ plasma_store_disconnect(c)
  /\ UNCHANGED <<objects, wrote, thr, requests, replies>>

NextU ==
  \/ ConnectU \/ CreateU \/ GetU \/ ContainsU \/ SealU \/ DeleteU \/ DisconnectU
  \/ Forget

SpecU == Init /\ [][NextU]_vars

\* one connection used by a single caller, call by call, each call step by
\* step, against a store that answers in order and keeps its objects in one
\* buffer
ObjIdsT == {1, 2}
ConnectS ==
  /\ proc = "running" /\ call.op = "none"
  /\ plasma_store_connect(1, 1)
  /\ UNCHANGED <<objects, wrote, thr, requests, replies>>
CreateSendS == proc = "running" /\ plasma_create_send(1, 1, 1)
GetSendS == proc = "running" /\ plasma_get_send(1, 1, 1)
ContainsSendS == proc = "running" /\ plasma_contains_send(1, 1, 1)
SealS == proc = "running" /\ \E id \in ObjIdsT : plasma_seal_step(1, 1, id)
DeleteS == proc = "running" /\ \E id \in ObjIdsT : plasma_delete_step(1, 1, id)
ServeS == proc = "running" /\ store_serve(1, {1})
RecvS == proc = "running" /\ recv_step(1, 1)
ReadS == proc = "running" /\ \E rd \in ReadOutcomes : contains_read_step(1, 1, rd)
FindS == proc = "running" /\ lookup_find_step(1, 1)
MapS == proc = "running" /\ lookup_map_step(1, 1)
ReturnS == proc = "running" /\ return_step(1)

NextS ==
  \/ ConnectS \/ CreateSendS \/ GetSendS \/ ContainsSendS \/ SealS \/ DeleteS
  \/ ServeS \/ RecvS \/ ReadS \/ FindS \/ MapS \/ ReturnS

SpecS == Init /\ [][NextS]_vars

\* one connection used by two threads with nothing to keep their Create and
\* Get calls apart; the store keeps its objects in one buffer
ConnectT ==
  /\ proc = "running" /\ call.op = "none"
  /\ plasma_store_connect(1, 1)
  /\ UNCHANGED <<objects, wrote, thr, requests, replies>>
CreateSendT == proc = "running" /\ \E t \in Threads : plasma_create_send(t, 1, 1)
GetSendT == proc = "running" /\ \E t \in Threads : plasma_get_send(t, 1, 1)
ServeT == proc = "running" /\ store_serve(1, {1})
RecvT == proc = "running" /\ \E t \in Threads : recv_step(t, 1)
FindT == proc = "running" /\ \E t \in Threads : lookup_find_step(t, 1)
MapT == proc = "running" /\ \E t \in Threads : lookup_map_step(t, 1)
ReturnT == proc = "running" /\ \E t \in Threads : return_step(t)

NextT ==
  \/ ConnectT \/ CreateSendT \/ GetSendT \/ ServeT \/ RecvT \/ FindT \/ MapT
  \/ ReturnT

SpecT == Init /\ [][NextT]_vars

\* a manager connection and transfers to it: dotted quads of the octets
\* below, and any short string
Octets == {0, 1, 127, 255}
Ports == {0, 1234, 65535}
Chars == {"1", "7", ".", "-", " ", "x"}
RECURSIVE Strings(_)
Strings(n) ==
  IF n = 0 THEN {<<>>}
  ELSE Strings(n - 1) \cup {Append(s, ch) : s \in Strings(n - 1), ch \in Chars}
DottedQuads == {DottedQuad(o) : o \in [1..4 -> Octets]}
OctetsOf(s) == CHOOSE o \in [1..4 -> Octets] : DottedQuad(o) = s
Managers == {n \in FdNums : fds[n] = SockFd(ManagerChan)}

ManagerConnectX ==
  /\ Managers = {}
  /\ \E outcome \in {"connected", "no_socket", "no_host", "refused"} :
       plasma_manager_connect(outcome)
  /\ UNCHANGED <<objects, wrote, thr, requests, replies>>
TransferX ==
  /\ proc = "running" /\ call.op = "none"
  /\ \E manager \in Managers, port \in Ports :
       \/ \E s \in DottedQuads : plasma_transfer(manager, s, <<>>, port, 1)
       \/ \E s \in Strings(MaxStrLen), junk \in Strings(1) :
            plasma_transfer(manager, s, junk, port, 1)
  /\ UNCHANGED <<objects, wrote, thr, requests, replies>>

NextX == ManagerConnectX \/ TransferX \/ Forget

SpecX == Init /\ [][NextX]_vars

\* ------------------------------------------------------------ properties
MapsOf(c, b) == {m \in mappings : m.c = c /\ m.buf = b}
EvNames(ev) == [i \in 1..Len(ev) |-> ev[i].e]
CountEv(ev, e) == Cardinality({i \in 1..Len(ev) : ev[i].e = e})
Starts(op) == call.op = "none" /\ call'.op = op
OffsetsAgree(r) == r.metadata_offset = r.data_offset + r.data_size

\* C1: on a connection every buffer id in the cache has exactly one mapped
\* region, made by one mmap call, and none without an entry; no region is
\* ever unmapped or an entry changed, and every Create or Get that returns
\* resolved its buffer id to the base address of that one region.
C1_IdempotentMapping ==
  /\ [](/\ \A c \in Conns, b \in BufIds :
             /\ Cardinality(MapsOf(c, b)) = IF mmap_table[c][b] = NULL THEN 0 ELSE 1
             /\ \A m \in MapsOf(c, b) : m.base = mmap_table[c][b]
        /\ (call.op \in {"create", "get"} /\ call.ret = "returned") =>
             /\ call.out.data - call.reply.data_offset
                  = mmap_table[call.c][call.reply.store_fd]
             /\ CountEv(call.ev, "mmap") <= 1)
  /\ [][/\ mappings \subseteq mappings'
        /\ \A c \in Conns, b \in BufIds :
             mmap_table[c][b] # NULL => mmap_table'[c][b] = mmap_table[c][b]]_vars

\* a Get that found its buffer id in the cache and made no mmap call
C1_Witness ==
  /\ call.op = "get" /\ call.ret = "returned" /\ call.got
  /\ CountEv(call.ev, "mmap") = 0

\* C2: whenever a call has returned no received descriptor is open; a
\* Create or Get that received a descriptor and returned made, on that
\* descriptor, exactly a close when the buffer id was cached and exactly an
\* mmap followed by a close when it was not.
C2_DescriptorHygiene ==
  /\ []((call.op = "none" \/ call.ret = "returned") =>
          \A n \in FdNums : fds[n].kind # "file")
  /\ [][((Starts("create") \/ Starts("get")) /\ call'.ret = "returned" /\ call'.got) =>
          LET fd == call'.ev[2].fd
              OnFd(e) == e.fd = fd /\ e.e \in {"mmap", "close"}
              made == EvNames(SelectSeq(call'.ev, OnFd))
          IN IF mmap_table[call'.c][call'.reply.store_fd] # NULL
             THEN made = <<"close">>
             ELSE made = <<"mmap", "close">>]_vars

\* a Create whose buffer id was cached: the descriptor it received is closed
C2_Witness ==
  /\ call.op = "create" /\ call.ret = "returned" /\ call.got
  /\ EvNames(call.ev)[3] = "close"
  /\ fds[call.ev[2].fd].kind = "free"

\* C3: a Create whose reply disagrees with the request in data_size or in
\* metadata_size, or whose metadata_offset is not data_offset + data_size,
\* exits the process: no pointer is returned, no mmap is made, the cache is
\* unchanged; a Create that returns had a reply with the three equalities.
C3_CreateChecks ==
  [][Starts("create") =>
       LET a == call'.args
           r == call'.reply
           good == /\ r.data_size = a.data_size
                   /\ r.metadata_size = a.metadata_size
                   /\ OffsetsAgree(r)
       IN /\ ~good => /\ proc' = "exited" /\ call'.ret = "exit"
                      /\ call'.out = NoOut
                      /\ CountEv(call'.ev, "mmap") = 0
                      /\ mappings' = mappings
                      /\ mmap_table' = mmap_table
          /\ call'.ret = "returned" => good]_vars

\* a Create that exits on a received reply whose sizes match the request and
\* whose metadata_offset alone is wrong
C3_Witness ==
  /\ call.op = "create" /\ call.ret = "exit" /\ call.got
  /\ call.reply.data_size = call.args.data_size
  /\ call.reply.metadata_size = call.args.metadata_size
  /\ ~OffsetsAgree(call.reply)

\* C4: plasma_store_connect makes at most MaxAttempts attempts; against a
\* store accepting from attempt k <= MaxAttempts on it returns a connection
\* after exactly k attempts, the first k - 1 failed and each followed by a
\* wait of 100 ms; against a store that never accepts it makes exactly
\* MaxAttempts attempts, waits after each, and exits without a connection.
C4_ConnectRetry ==
  call.op = "connect" =>
    LET ev == call.ev
        k == call.args.k
        tries == {i \in 1..Len(ev) : ev[i].e = "connect_ipc_sock"}
        failed == {i \in tries : ev[i].fd < 0}
        waits == {i \in 1..Len(ev) : ev[i].e = "usleep" /\ ev[i].x = 100000}
    IN /\ Cardinality(tries) <= 50
       /\ \A i \in failed : i + 1 \in waits
       /\ Cardinality(waits) = Cardinality(failed)
       /\ IF k <= 50
          THEN /\ call.ret = "returned" /\ connState[call.c] = "Connected"
               /\ Cardinality(tries) = k /\ Cardinality(failed) = k - 1
               /\ ev[Len(ev)].e = "connect_ipc_sock" /\ ev[Len(ev)].fd >= 0
               /\ conn_fd[call.c] = ev[Len(ev)].fd
          ELSE /\ call.ret = "exit" /\ proc = "exited"
               /\ connState[call.c] = "Unconnected"
               /\ Cardinality(tries) = 50 /\ Cardinality(failed) = 50

\* the store accepts from the 5th attempt on and the connection is returned
C4_Witness ==
  /\ call.op = "connect" /\ call.ret = "returned" /\ call.args.k = 5
  /\ CountEv(call.ev, "connect_ipc_sock") = 5

\* C6 (as claimed): plasma_contains exits on a read of -1, of 0 and on a
\* short read, and writes has_object only from a completely received reply.
C6_ContainsReadFatal ==
  call.op = "contains" =>
    /\ call.ev[2].x \in {-1, 0} => call.ret = "exit"
    /\ ~call.got => (call.ret = "exit" /\ call.out.has_object = Unset)

\* C7 (as claimed): a Create or Get whose reply is not received exits the
\* process: it returns no pointer and adds no cache entry.
C7_RecvFailureFatal ==
  [][((Starts("create") \/ Starts("get")) /\ ~call'.got) =>
       /\ call'.ret = "exit" /\ call'.out = NoOut
       /\ mmap_table' = mmap_table]_vars

\* C8 (as claimed): for every Get reply data = base + data_offset and
\* size = data_size; with metadata requested metadata = data + data_size
\* = base + metadata_offset and metadata_size is the reply's; without, neither
\* metadata output is written.
C8_GetOutputsClaimed ==
  (call.op = "get" /\ call.ret = "returned" /\ call.got) =>
    LET r == call.reply
        base == mmap_table[call.c][r.store_fd]
    IN /\ call.out.data = base + r.data_offset
       /\ call.out.size = r.data_size
       /\ IF call.args.want_metadata
          THEN /\ call.out.metadata = call.out.data + r.data_size
               /\ call.out.metadata = base + r.metadata_offset
               /\ call.out.metadata_size = r.metadata_size
          ELSE call.out.metadata = Unset /\ call.out.metadata_size = Unset

\* C8 (amended): as claimed, but metadata = base + metadata_offset only for
\* a reply with metadata_offset = data_offset + data_size, which plasma_get
\* does not check.
C8_GetOutputs ==
  (call.op = "get" /\ call.ret = "returned" /\ call.got) =>
    LET r == call.reply
        base == mmap_table[call.c][r.store_fd]
    IN /\ call.out.data = base + r.data_offset
       /\ call.out.size = r.data_size
       /\ IF call.args.want_metadata
          THEN /\ call.out.metadata = call.out.data + r.data_size
               /\ OffsetsAgree(r) => call.out.metadata = base + r.metadata_offset
               /\ call.out.metadata_size = r.metadata_size
          ELSE call.out.metadata = Unset /\ call.out.metadata_size = Unset

\* a Get with metadata requested, answered with a non-empty data segment at
\* a non-zero offset
C8_Witness ==
  /\ call.op = "get" /\ call.ret = "returned" /\ call.got
  /\ call.args.want_metadata /\ call.reply.data_size > 0
  /\ call.reply.data_offset > 0 /\ OffsetsAgree(call.reply)

ObjectOps == {"create", "get", "contains", "seal", "delete"}
Lifecycle(c) ==
  /\ (connState'[c] = "Connected" /\ connState[c] # "Connected") =>
       /\ connState[c] = "Unconnected"
       /\ call'.op = "connect" /\ call'.c = c /\ call'.ret = "returned"
       /\ \A b \in BufIds : mmap_table'[c][b] = NULL
  /\ (connState'[c] = "Closed" /\ connState[c] # "Closed") =>
       /\ connState[c] = "Connected"
       /\ call'.op = "disconnect" /\ call'.c = c
  /\ connState[c] = "Closed" => connState'[c] = "Closed"
  /\ connState[c] # "Unconnected" => connState'[c] # "Unconnected"

\* C5 (as claimed): a connection becomes Connected only from Unconnected, by
\* a connect that returns, with an empty cache; becomes Closed only from
\* Connected, by disconnect; stays Closed; and an object operation on a
\* connection that is not Connected sends no request on a channel and
\* neither reads nor modifies that connection's cache.
C5_LifecycleClaimed ==
  [][/\ \A c \in Conns : Lifecycle(c)
     /\ \A op \in ObjectOps :
          (Starts(op) /\ call'.st # "Connected") =>
            /\ ~Delivered(call'.ev[1])
            /\ CountEv(call'.ev, "mmap") + CountEv(call'.ev, "close") = 0
            /\ mmap_table' = mmap_table]_vars

\* C5 (amended): the same lifecycle; an object operation on a Connected
\* connection sends its request on that connection's channel and leaves the
\* caches of the other connections alone.  The operations do not check the
\* state of the connection they are given.
C5_Lifecycle ==
  [][/\ \A c \in Conns : Lifecycle(c)
     /\ \A op \in ObjectOps :
          (Starts(op) /\ call'.st = "Connected") =>
            /\ Delivered(call'.ev[1]) /\ call'.ev[1].x = call'.c
            /\ call'.ev[1].fd = conn_fd[call'.c]
            /\ \A d \in Conns \ {call'.c} : mmap_table'[d] = mmap_table[d]]_vars

\* a Get on the second connection after the first was disconnected, with a
\* buffer cached on it
C5_Witness ==
  /\ call.op = "get" /\ call.ret = "returned" /\ call.c = 2 /\ call.st = "Connected"
  /\ connState[1] = "Closed"
  /\ \E b \in BufIds : mmap_table[1][b] # NULL

\* C9: a Get of an object that a returned Create wrote metadata M for, on
\* any connection, answered with the buffer, offset and sizes Create was
\* answered with, returns the created metadata_size and metadata = data +
\* data_size, and the bytes at metadata are M.
C9_MetadataRoundTrip ==
  (call.op = "get" /\ call.ret = "returned" /\ call.got /\ call.args.want_metadata) =>
    LET id == call.args.object_id
        a == objects[id].alloc
        M == wrote[id].meta
        r == call.reply
    IN (/\ objects[id].st # "absent" /\ ~M.null
        /\ r.store_fd = a.store_fd /\ r.data_offset = a.data_offset
        /\ r.data_size = a.data_size /\ r.metadata_size = a.metadata_size) =>
         /\ call.out.metadata_size = Len(M.bytes)
         /\ call.out.metadata = call.out.data + a.data_size
         /\ \A i \in 1..Len(M.bytes) :
              Load(mappings, mem, call.out.metadata + i - 1) = M.bytes[i]

\* a Get on another connection than the one that created the object, whose
\* metadata has a non-zero byte behind a non-empty data segment
C9_Witness ==
  /\ call.op = "get" /\ call.ret = "returned" /\ call.args.want_metadata
  /\ wrote[1].c # 0 /\ wrote[1].c # call.c
  /\ call.reply = objects[1].alloc
  /\ call.reply.data_size > 0 /\ call.reply.data_offset > 0
  /\ \E i \in 1..Len(wrote[1].meta.bytes) : wrote[1].meta.bytes[i] # 0

\* C10 (as claimed): a Contains whose read delivers bytes returns the
\* has_object of the reply the store sent, so 1 for a sealed object and 0
\* for an absent one when the store honours Seal and Delete; it does not end
\* the process or change the connection or its cache.
C10_ContainsRelays ==
  [][(Starts("contains") /\ call'.ev[2].x > 0) =>
       /\ call'.ret = "returned" /\ proc' = "running"
       /\ call'.out.has_object = call'.sent.has_object
       /\ (call'.sent.has_object = StoreHasObject(call'.args.object_id)) =>
            call'.out.has_object = StoreHasObject(call'.args.object_id)
       /\ connState' = connState /\ conn_fd' = conn_fd
       /\ mmap_table' = mmap_table /\ mappings' = mappings /\ fds' = fds]_vars

\* C11: plasma_seal and plasma_delete write one request, tagged Seal or
\* Delete and carrying the caller's object id, on the connection's channel
\* and return: they read no reply and change neither the cache nor a mapped
\* region nor a descriptor; no reply on a channel answers a Seal or a Delete,
\* so none is there for a later Create, Get or Contains to read.
C11_FireAndForget ==
  /\ [][\A t \in Threads :
          (thr[t].pc = "idle" /\ thr'[t].op \in {"seal", "delete"}) =>
            LET m == IF requests'[1] = <<>> THEN NoMsg
                     ELSE requests'[1][Len(requests'[1])]
            IN /\ requests'[1] = Append(requests[1], m)
               /\ \A c \in Conns \ {1} : requests'[c] = requests[c]
               /\ m.type = IF thr'[t].op = "seal" THEN "PLASMA_SEAL" ELSE "PLASMA_DELETE"
               /\ m.req.object_id = thr'[t].args.object_id
               /\ EvNames(thr'[t].ev) = <<"write_message">>
               /\ thr'[t].ev[1].x = 1 /\ thr'[t].ev[1].req = m.req
               /\ thr'[t].pc = "returned"
               /\ replies' = replies /\ mmap_table' = mmap_table
               /\ mappings' = mappings /\ mem' = mem /\ fds' = fds]_vars
  /\ [](\A c \in Conns : \A i \in 1..Len(replies[c]) :
          replies[c][i].re.type \in ReplyBearing)
  /\ [](\A t \in Threads :
          thr[t].got # NoReplyMsg => thr[t].got.re.type \in ReplyBearing)

\* a Get that has read its reply while the Delete of object 2 written before
\* it has not yet been taken by the store
C11_Witness ==
  /\ thr[1].op = "get" /\ thr[1].pc = "received" /\ thr[1].got.re = thr[1].msg
  /\ requests[1] # <<>> /\ requests[1][1].type = "PLASMA_DELETE"
  /\ requests[1][1].req.object_id = 2

\* C12 (as claimed): on a connection used by one caller every Create, Get
\* and Contains writes one request and reads exactly one reply, the whole
\* reply to that request, before it returns; no request is written while a
\* reply, or a request that will be answered, is still on the channel.
C12_Alternation ==
  /\ [][\A t \in Threads :
          /\ (thr[t].pc = "idle" /\ thr'[t].pc # "idle") =>
               /\ replies[1] = <<>>
               /\ \A i \in 1..Len(requests[1]) : requests[1][i].type \notin ReplyBearing
          /\ (thr[t].pc = "sent" /\ thr'[t].pc \in {"received", "returned"}) =>
               /\ replies[1] # <<>> /\ replies'[1] = Tail(replies[1])
               /\ thr'[t].got.re = thr[t].msg /\ ~thr'[t].got.rest]_vars
  /\ [](\A t \in Threads :
          thr[t].op \in {"create", "get", "contains"} =>
            CountEv(thr[t].ev, "write_message") = 1)

\* C13 (as claimed): plasma_store_disconnect closes the channel, frees the
\* connection object and with it every cache entry made on the connection,
\* and unmaps nothing.
C13_DisconnectReleases ==
  [][Starts("disconnect") =>
       /\ fds'[conn_fd[call'.c]].kind = "free"
       /\ connState'[call'.c] = "Closed"
       /\ Entries(mmap_table'[call'.c]) = {}
       /\ mappings' = mappings]_vars

\* C14: for a dotted quad "a.b.c.d" of octets and a 16-bit port p,
\* plasma_transfer writes one request on the manager's channel, tagged
\* Transfer, with address <<a, b, c, d>>, port p and the caller's object id,
\* and returns without reading anything.
C14_TransferEncoding ==
  (call.op = "transfer" /\ call.args.addr \in DottedQuads) =>
    LET o == OctetsOf(call.args.addr)
        sends == SelectSeq(call.ev, LAMBDA e : e.e # "strtol")
    IN /\ call.ret = "returned" /\ proc = "running"
       /\ Len(sends) = 1 /\ sends[1].e = "write_message"
       /\ sends[1].x = ManagerChan /\ sends[1].t = "PLASMA_TRANSFER"
       /\ sends[1].req.addr = <<o[1], o[2], o[3], o[4]>>
       /\ sends[1].req.port = call.args.port
       /\ sends[1].req.object_id = call.args.object_id

\* the transfer to "127.0.0.1", port 1234
C14_Witness ==
  /\ call.op = "transfer" /\ call.ret = "returned"
  /\ call.args.addr = <<"1", "2", "7", ".", "0", ".", "0", ".", "1">>
  /\ call.args.port = 1234
  /\ call.ev[5].req.addr = <<127, 0, 0, 1>> /\ call.ev[5].req.port = 1234

\* C19 (as claimed): the parser of plasma_transfer makes exactly four scans,
\* the first at the start of the string and each further one exactly one
\* character behind the end of the token before; for every string each scan
\* starts at the terminator of the string or before it.
C19_ParserInBounds ==
  call.op = "transfer" =>
    LET scans == SelectSeq(call.ev, LAMBDA e : e.e = "strtol")
        terminator == Len(call.args.addr) + 1
    IN /\ Len(scans) = 4 /\ scans[1].fd = 1
       /\ \A i \in 1..3 : scans[i + 1].fd = scans[i].t + 1
       /\ \A i \in 1..4 : scans[i].fd <= terminator

\* C15: a Create that returns and was given metadata has written the
\* metadata_size bytes given into the object's buffer at metadata_offset,
\* which is where data + data_size points, and no other byte of any buffer,
\* so none of the data segment; given NULL it has written no byte at all.
C15_CreateWritesMetadata ==
  [][(Starts("create") /\ call'.ret = "returned") =>
       LET r == call'.reply
           M == call'.args.metadata
           n == call'.args.metadata_size
           dst == call'.out.data + call'.args.data_size
           written == IF M.null THEN {}
                      ELSE r.metadata_offset .. (r.metadata_offset + n - 1)
       IN /\ dst = mmap_table'[call'.c][r.store_fd] + r.metadata_offset
          /\ ~M.null => Len(M.bytes) = n
          /\ \A b \in BufIds, i \in 0..(BufLen - 1) :
               mem'[b][i] = IF b = r.store_fd /\ i \in written
                            THEN M.bytes[i - r.metadata_offset + 1]
                            ELSE mem[b][i]
          /\ \A i \in 1..Cardinality(written) :
               Load(mappings', mem', dst + i - 1) = M.bytes[i]
          /\ \A i \in 0..(call'.args.data_size - 1) :
               Load(mappings', mem', call'.out.data + i)
                 = mem[r.store_fd][r.data_offset + i]]_vars

\* a Create that wrote a non-zero metadata byte behind a non-empty data
\* segment that does not start the buffer
C15_Witness ==
  /\ call.op = "create" /\ call.ret = "returned" /\ ~call.args.metadata.null
  /\ call.args.data_size > 0 /\ call.reply.data_offset > 0
  /\ call.args.metadata_size > 0
  /\ mem[call.reply.store_fd][call.reply.metadata_offset] # 0

Crossed(t) == thr[t].got # NoReplyMsg /\ thr[t].got.re.t # t
TwiceMapped == \E b \in BufIds : Cardinality(MapsOf(1, b)) > 1

\* C16: a thread reads the reply to another thread's request, or maps a
\* buffer the connection has mapped already, only in a call during which
\* another thread was inside a call on the same connection; calls made one
\* after the other do neither.  (That both do happen is the witness.)
C16_UnsafeWhenConcurrent ==
  /\ [](\A t \in Threads : Crossed(t) => thr[t].overlap)
  /\ [][\A t \in Threads, b \in BufIds :
          (thr[t].pc = "missed" /\ thr'[t].pc = "returned"
           /\ thr[t].got.reply.store_fd = b /\ MapsOf(1, b) # {})
            => thr[t].overlap]_vars

\* both threads have read the reply to the other's request and the buffer
\* is mapped twice on the connection
C16_Witness ==
  /\ Crossed(1) /\ Crossed(2)
  /\ TwiceMapped
  /\ thr[1].op \in {"create", "get"} /\ thr[2].op \in {"create", "get"}

C18_ReturnedRangeMapped ==
  (call.op \in {"create", "get"} /\ call.ret = "returned" /\ call.got) =>
    LET r == call.reply
        base == mmap_table[call.c][r.store_fd]
    IN \A m \in mappings :
         m.base = base =>
           /\ m.base <= call.out.data
           /\ call.out.data + r.data_size + r.metadata_size <= m.base + m.size

====
